---- MODULE Spec2Model ----
(***************************************************************************)
(* neo4py: the connector's session and bookmark manager                    *)
(* (src/neo4py/_base_connector.py) and the batch executors built on it     *)
(* (src/neo4py/_pandas_support.py, src/neo4py/_numpy_support.py).          *)
(*                                                                         *)
(* The owning thread makes the calls (read_query/write_query,              *)
(* parallel_*_query, parallelism() enter and exit, the bulk saves); the    *)
(* jobs submitted to the thread pool run concurrently with it.  A          *)
(* session's closing token (session.last_bookmark()) is modelled by the    *)
(* number of the session.                                                  *)
(*                                                                         *)
(* Spec      the raw operations of the connector, called in any order      *)
(* SpecSave  one bulk save (save_nodes_df, save_nodes_np or save_rel_df)   *)
(*           called on a new connector                                     *)
(***************************************************************************)
EXTENDS Integers, Sequences, FiniteSets, TLC

\* ---------------------------------------------------------------- bounds
MaxJobs == 2          \* jobs submitted to the pool in one run
MaxSessions == 3      \* sessions opened in one run of Spec
MaxSaveSessions == 5  \* sessions opened in one run of SpecSave
MaxDepth == 2         \* nesting of parallelism() scopes
MaxScopes == 2        \* scopes entered in one run
MaxRows == 3          \* rows of a row source
MaxCalls == 6         \* calls the user makes on the connector in one run of Spec

\* ThreadPoolExecutor(max_workers=self._threads)
Threads == 2

\* databases: "neo4j" stands for database=None (the default database)
DBs == {"neo4j", "other"}
JobIds == 1..MaxJobs

VARIABLES
    bookmarks,           \* self._bookmarks: db -> list of tokens
    parallel_bookmarks,  \* self._parallel_bookmarks: db -> list of tokens
    lock,                \* self._parallel_bookmarks_lock: 0 free, else the holding job
    parallel_mode,       \* self._parallel_mode
    futures,             \* self._futures: list of job ids
    jobs,                \* the jobs handed to the thread pool
    pc,                  \* the owning thread: "idle", "save" (in a bulk save) or
                         \*   "await" (in _await_futures)
    awaitIdx,            \* position of _await_futures in self._futures
    scopes,              \* the active parallelism() scopes, innermost last
    sessionsOpened,      \* number of driver sessions opened so far
    scopesEntered,       \* number of parallelism() scopes entered so far
    last,                \* the last raw call of the owning thread: its number in the
                         \* run, the operation and how it ended
    opened,              \* the session opened most recently: its database and seed
    lastSeqTok,          \* db -> token of the last clean sequential close, 0 once a
                         \*       parallel session on db committed after it
    mustSee,             \* db -> tokens the next session on db has to be seeded with
    save,                \* the bulk save in progress, or the last one
    batches,             \* the batches the bulk save has executed or submitted
    text,                \* the last call of a function that builds text (escaping,
                         \*   the Cypher statement builder): arguments and result;
                         \*   for index names the last two calls
    result               \* a Result a query returned, and what select made of it

bmVars == <<bookmarks, parallel_bookmarks>>
sessVars == <<sessionsOpened, opened, lastSeqTok, mustSee>>
scopeVars == <<parallel_mode, scopes, scopesEntered>>
saveVars == <<save, batches>>

vars == <<bookmarks, parallel_bookmarks, lock, parallel_mode, futures, jobs, pc,
          awaitIdx, scopes, scopesEntered, sessionsOpened, last, opened, lastSeqTok,
          mustSee, save, batches, text, result>>

Range(s) == {s[i] : i \in 1..Len(s)}
Min(a, b) == IF a < b THEN a ELSE b

\* a job: st is its position, seed the bookmarks its session was opened with, tok
\* the closing token of its session, lst the pending list it looked up under the
\* lock, scope the innermost scope active when it was submitted (0: none), mode
\* the mode flag when it was submitted
NoJob == [st |-> "unused", db |-> "neo4j", seed |-> <<>>, tok |-> 0, lst |-> <<>>,
          err |-> "none", scope |-> 0, mode |-> FALSE]

\* an active scope: id numbers the scopes in the order entered, toks[d] are
\* the tokens of the parallel sessions on d that committed while it was active,
\* nested whether a scope was entered inside it
NoScope == [id |-> 0, toks |-> [d \in DBs |-> {}], nested |-> FALSE]

\* ------------------------------------------------------ creation modes
\* members of different Enum classes are never equal, whatever their values
NodeCreationMode(v) == [cls |-> "NodeCreationMode", value |-> v]
RelNodeCreationMode(v) == [cls |-> "RelNodeCreationMode", value |-> v]
RelCreationMode(v) == [cls |-> "RelCreationMode", value |-> v]

None == [cls |-> "NoneType", value |-> 0]

NODE_CREATE == NodeCreationMode(1)
NODE_MERGE_ON_ID_IGNORE_ON_MATCH == NodeCreationMode(2)
NODE_MERGE_ON_ID_SET_ATTR_ON_MATCH == NodeCreationMode(3)
NODE_MERGE_ON_ALL_ATTRIBUTES == NodeCreationMode(4)
NodeModes == {NodeCreationMode(v) : v \in 1..4}

RELNODE_MERGE == RelNodeCreationMode(1)
RELNODE_MATCH == RelNodeCreationMode(2)
RELNODE_CREATE == RelNodeCreationMode(3)
RelNodeModes == {RelNodeCreationMode(v) : v \in 1..3}

REL_CREATE == RelCreationMode(1)
REL_MERGE == RelCreationMode(2)
RelModes == {RelCreationMode(v) : v \in 1..2}

NoModes == [node |-> None, src |-> None, dst |-> None, rel |-> None]

\* what a bulk save is called with, as far as its checks look at it: label (and
\* for save_rel_df src_label, dst_label, src_id, dst_id) being strings,
\* attributes being a list of strings, array.shape matching attributes, id_
\* ("none", "present": among the columns, "absent"), src_id and dst_id being
\* columns, some column being left to the edge, every declared endpoint
\* attribute being a column
NoArgs == [labelIsStr |-> TRUE, attrsAreStrs |-> TRUE, shapeOk |-> TRUE, id |-> "none",
           namesAreStrs |-> TRUE, idsInDf |-> TRUE, relAttrs |-> TRUE,
           endpointAttrsInDf |-> TRUE]

NoSave == [pc |-> "none", kind |-> "none", modes |-> NoModes, custom |-> FALSE,
           args |-> NoArgs,
           n |-> 0, bs |-> 1, plan |-> <<>>, parallel |-> FALSE, path |-> "none",
           offset |-> 0, bodyError |-> "none", error |-> "none"]

\* no text has been built
NoText == [op |-> "none"]

\* no query has returned a Result
NoResult == [op |-> "none"]

Init ==
    /\ bookmarks = [d \in DBs |-> <<>>]
    /\ parallel_bookmarks = [d \in DBs |-> <<>>]
    /\ lock = 0
    /\ parallel_mode = FALSE
    /\ futures = <<>>
    /\ jobs = [j \in JobIds |-> NoJob]
    /\ pc = "idle"
    /\ awaitIdx = 0
    /\ scopes = <<>>
    /\ sessionsOpened = 0
    /\ last = [no |-> 0, op |-> "none", outcome |-> "none"]
    /\ opened = [db |-> "neo4j", seed |-> <<>>]
    /\ scopesEntered = 0
    /\ lastSeqTok = [d \in DBs |-> 0]
    /\ mustSee = [d \in DBs |-> {}]
    /\ save = NoSave
    /\ batches = <<>>
    /\ text = NoText
    /\ result = NoResult

\* the user makes one more call on the connector
Call(op, outcome) == [no |-> last.no + 1, op |-> op, outcome |-> outcome]

OpenedUnseeded(db) == [db |-> db, seed |-> <<>>]

\* the record of a session being opened on db with the bookmarks of db
OpenedRec(db) == [db |-> db, seed |-> bookmarks[db]]

\* ------------------------------------------------ sequential operations
SequentialNeverRefused == FALSE

\* _get_sequential_session: the mode check that precedes everything else
SequentialRefused == parallel_mode

SequentialCloseExtends(bm, db, tok) == [bm EXCEPT ![db] = Append(@, tok)]

\* _get_sequential_session after the yield: the token replaces the bookmarks of db
SequentialClose(bm, db, tok) == [bm EXCEPT ![db] = <<tok>>]

\* how read_query / write_query ends; ok: the transaction and the close succeed
SequentialOutcome(ok) ==
    IF SequentialRefused THEN "usage_error" ELSE IF ok THEN "ok" ELSE "exec_error"

\* read_query / write_query on db: what it does to the connector
SequentialQuery(db, ok, maxSessions) ==
    IF SequentialRefused
    THEN UNCHANGED <<bmVars, sessVars>>
    ELSE /\ sessionsOpened < maxSessions
         /\ sessionsOpened' = sessionsOpened + 1
         /\ opened' = OpenedRec(db)
         /\ mustSee' = [mustSee EXCEPT ![db] = {}]
         /\ IF ok
            THEN /\ bookmarks' = SequentialClose(bookmarks, db, sessionsOpened + 1)
                 /\ parallel_bookmarks' = [parallel_bookmarks EXCEPT ![db] = <<>>]
                 /\ lastSeqTok' = [lastSeqTok EXCEPT ![db] = sessionsOpened + 1]
            ELSE UNCHANGED <<bmVars, lastSeqTok>>

\* read_query / write_query on db, called by the user
read_or_write_query(db, ok) ==
    /\ pc = "idle"
    /\ last.no < MaxCalls
    /\ SequentialQuery(db, ok, MaxSessions)
    /\ last' = Call("seq", SequentialOutcome(ok))
    /\ UNCHANGED <<lock, futures, jobs, pc, awaitIdx, scopeVars, saveVars>>
    /\ UNCHANGED <<text, result>>

\* --------------------------------------------------- parallel operations
NextJob ==
    CHOOSE j \in JobIds : jobs[j].st = "unused" /\ \A k \in 1..(j-1) : jobs[k].st # "unused"

CurrentScope == IF scopes = <<>> THEN 0 ELSE scopes[Len(scopes)].id

\* parallel_read_query / parallel_write_query on db: the job is submitted to the
\* pool and its future appended; the mode check is made later, by the job
ParallelQuery(db) ==
    /\ \E j \in JobIds : jobs[j].st = "unused"
    /\ jobs' = [jobs EXCEPT ![NextJob] = [NoJob EXCEPT !.st = "queued", !.db = db,
                                                      !.scope = CurrentScope,
                                                      !.mode = parallel_mode]]
    /\ futures' = Append(futures, NextJob)

\* parallel_read_query / parallel_write_query on db, called by the user: the
\* call returns the future
parallel_query(db) ==
    /\ pc = "idle"
    /\ last.no < MaxCalls
    /\ ParallelQuery(db)
    /\ last' = Call("par", "future")
    /\ UNCHANGED <<bmVars, lock, pc, awaitIdx, scopeVars, sessVars, saveVars>>
    /\ UNCHANGED <<text, result>>

Running == {j \in JobIds : jobs[j].st \in {"open", "closing", "locked"}}

\* the pool hands the queued jobs to its workers in submission order
FirstQueued(j) == jobs[j].st = "queued" /\ \A k \in 1..(j-1) : jobs[k].st # "queued"

\* sessions the run may still open
SessionBound == IF save.pc = "none" THEN MaxSessions ELSE MaxSaveSessions

\* job(): _get_parallel_session up to the open session
JobStart(j) ==
    /\ FirstQueued(j)
    /\ Cardinality(Running) < Threads
    /\ IF ~parallel_mode
       THEN /\ jobs' = [jobs EXCEPT ![j].st = "failed", ![j].err = "usage_error"]
            /\ UNCHANGED <<sessionsOpened, opened, mustSee>>
       ELSE /\ sessionsOpened < SessionBound
            /\ sessionsOpened' = sessionsOpened + 1
            /\ opened' = OpenedRec(jobs[j].db)
            /\ mustSee' = [mustSee EXCEPT ![jobs[j].db] = {}]
            /\ jobs' = [jobs EXCEPT ![j].st = "open", ![j].seed = bookmarks[jobs[j].db],
                                    ![j].tok = sessionsOpened + 1]
    /\ UNCHANGED <<bmVars, lock, futures, pc, awaitIdx, scopeVars, last, lastSeqTok,
                   saveVars>>
    /\ UNCHANGED <<text, result>>

\* job(): the transaction; ok: it commits, else the session is left by the exception
JobRun(j, ok) ==
    /\ jobs[j].st = "open"
    /\ IF ok
       THEN /\ jobs' = [jobs EXCEPT ![j].st = "closing"]
            /\ scopes' = [i \in 1..Len(scopes) |->
                            [scopes[i] EXCEPT !.toks[jobs[j].db] = @ \cup {jobs[j].tok}]]
            /\ lastSeqTok' = [lastSeqTok EXCEPT ![jobs[j].db] = 0]
       ELSE /\ jobs' = [jobs EXCEPT ![j].st = "failed", ![j].err = "exec_error"]
            /\ UNCHANGED <<scopes, lastSeqTok>>
    /\ UNCHANGED <<bmVars, lock, parallel_mode, futures, pc, awaitIdx, scopesEntered,
                   sessionsOpened, last, opened, mustSee, saveVars>>
    /\ UNCHANGED <<text, result>>

NoLock == TRUE

\* with self._parallel_bookmarks_lock: the lock can be taken
LockFree == lock = 0

\* job(): takes the lock and looks up the pending list of its database
JobLock(j) ==
    /\ jobs[j].st = "closing"
    /\ LockFree
    /\ lock' = j
    /\ jobs' = [jobs EXCEPT ![j].st = "locked", ![j].lst = parallel_bookmarks[jobs[j].db]]
    /\ UNCHANGED <<bmVars, futures, pc, awaitIdx, scopeVars, sessVars, last, saveVars>>
    /\ UNCHANGED <<text, result>>

\* job(): appends the closing token, releases the lock, the future completes
JobAppend(j) ==
    /\ jobs[j].st = "locked"
    /\ parallel_bookmarks' = [parallel_bookmarks EXCEPT
                                 ![jobs[j].db] = Append(jobs[j].lst, jobs[j].tok)]
    /\ lock' = 0
    /\ jobs' = [jobs EXCEPT ![j].st = "done"]
    /\ UNCHANGED <<bookmarks, futures, pc, awaitIdx, scopeVars, sessVars, last, saveVars>>
    /\ UNCHANGED <<text, result>>

\* ------------------------------------------------------ parallelism scope
\* parallelism(): entry
Enter ==
    /\ parallel_mode' = TRUE
    /\ scopesEntered' = scopesEntered + 1
    /\ scopes' = Append([i \in 1..Len(scopes) |-> [scopes[i] EXCEPT !.nested = TRUE]],
                        [NoScope EXCEPT !.id = scopesEntered + 1])

\* parallelism() entered by the user
EnterScope ==
    /\ pc = "idle"
    /\ last.no < MaxCalls
    /\ Len(scopes) < MaxDepth
    /\ scopesEntered < MaxScopes
    /\ Enter
    /\ last' = Call("enter", "ok")
    /\ UNCHANGED <<bmVars, lock, futures, jobs, pc, awaitIdx, sessVars, saveVars>>
    /\ UNCHANGED <<text, result>>

\* parallelism() of the user: the body is left, by return or by exception, and
\* the finally: block begins
ExitScope ==
    /\ pc = "idle"
    /\ last.no < MaxCalls
    /\ scopes # <<>>
    /\ pc' = "await"
    /\ awaitIdx' = 1
    /\ last' = Call("exit", "awaiting")
    /\ UNCHANGED <<bmVars, lock, futures, jobs, scopeVars, sessVars, saveVars>>
    /\ UNCHANGED <<text, result>>

ConsolidatedEmptyToo(bm, pb) == [d \in DBs |-> pb[d]]

ConsolidatedLastOnly(bm, pb) ==
    [d \in DBs |-> IF pb[d] # <<>> THEN <<pb[d][Len(pb[d])]>> ELSE bm[d]]

\* _consolidate_parallel_bookmarks: the new bookmark map
Consolidated(bm, pb) == [d \in DBs |-> IF pb[d] # <<>> THEN pb[d] ELSE bm[d]]

Top == scopes[Len(scopes)]
Pop == SubSeq(scopes, 1, Len(scopes) - 1)

\* the bulk save whose parallelism() block is being left ends with it
SaveEnds(error) ==
    IF save.pc = "exit" THEN [save EXCEPT !.pc = "done", !.error = error] ELSE save

\* _await_futures: future.result() of a failed future raises out of the loop
\* and out of the finally: block of parallelism()
AwaitRaise ==
    /\ pc = "await"
    /\ awaitIdx <= Len(futures)
    /\ jobs[futures[awaitIdx]].st = "failed"
    /\ pc' = "idle"
    /\ awaitIdx' = 0
    /\ scopes' = Pop
    /\ last' = [last EXCEPT !.op = "exit", !.outcome = "raised"]
    /\ save' = SaveEnds(jobs[futures[awaitIdx]].err)
    /\ UNCHANGED <<bmVars, lock, parallel_mode, scopesEntered, futures, jobs, sessVars,
                   batches>>
    /\ UNCHANGED <<text, result>>

AwaitNextNoWait ==
    /\ pc = "await"
    /\ awaitIdx <= Len(futures)
    /\ awaitIdx' = awaitIdx + 1
    /\ UNCHANGED <<bmVars, lock, futures, jobs, pc, scopeVars, sessVars, last, saveVars>>
    /\ UNCHANGED <<text, result>>

AwaitNextSwallows ==
    /\ pc = "await"
    /\ awaitIdx <= Len(futures)
    /\ jobs[futures[awaitIdx]].st \in {"done", "failed"}
    /\ awaitIdx' = awaitIdx + 1
    /\ UNCHANGED <<bmVars, lock, futures, jobs, pc, scopeVars, sessVars, last, saveVars>>
    /\ UNCHANGED <<text, result>>

\* _await_futures: future.result() of a completed future returns
AwaitNext ==
    /\ pc = "await"
    /\ awaitIdx <= Len(futures)
    /\ jobs[futures[awaitIdx]].st = "done"
    /\ awaitIdx' = awaitIdx + 1
    /\ UNCHANGED <<bmVars, lock, futures, jobs, pc, scopeVars, sessVars, last, saveVars>>
    /\ UNCHANGED <<text, result>>

\* _await_futures returns; parallelism() resets the mode and consolidates
AwaitDone ==
    /\ pc = "await"
    /\ awaitIdx > Len(futures)
    /\ futures' = <<>>
    /\ parallel_mode' = FALSE
    /\ bookmarks' = Consolidated(bookmarks, parallel_bookmarks)
    /\ parallel_bookmarks' = [d \in DBs |-> <<>>]
    /\ pc' = "idle"
    /\ awaitIdx' = 0
    /\ scopes' = Pop
    /\ mustSee' = [d \in DBs |-> IF ~Top.nested /\ Top.toks[d] # {}
                                 THEN Top.toks[d] ELSE mustSee[d]]
    /\ last' = [last EXCEPT !.op = "exit", !.outcome = "ok"]
    /\ save' = SaveEnds(save.bodyError)
    /\ UNCHANGED <<lock, jobs, scopesEntered, sessionsOpened, opened, lastSeqTok, batches>>
    /\ UNCHANGED <<text, result>>

\* ------------------------------------------------------------ bulk saves
\* The entry points run straight down to the batch loop: their plan is the
\* list of what they do on the way, "index" for a create_*_index call (one
\* write_query), ending with "run" (the batch loop is reached) or with the
\* exception that is raised.

\* save_nodes_df: the creation mode in effect
NodesDfMode(mode, custom) ==
    IF custom \/ mode = None THEN NODE_CREATE ELSE mode

NodesDfPlanNoIdCheck(labelIsStr, mode, custom, id) ==
    LET m == NodesDfMode(mode, custom)
        all == IF m = NODE_MERGE_ON_ALL_ATTRIBUTES THEN <<"index">> ELSE <<>>
    IN  IF ~labelIsStr THEN <<"TypeError:label">>
        ELSE IF id = "absent" THEN all \o <<"KeyError:id">>
        ELSE IF id = "present" /\ m # NODE_MERGE_ON_ALL_ATTRIBUTES
        THEN all \o <<"index", "run">>
        ELSE all \o <<"run">>

\* save_nodes_df up to the batch loop; id: "none" (id_ is None), "present"
\* (a column of df) or "absent"
NodesDfPlan(labelIsStr, mode, custom, id) ==
    LET m == NodesDfMode(mode, custom)
        all == IF m = NODE_MERGE_ON_ALL_ATTRIBUTES THEN <<"index">> ELSE <<>>
    IN  IF ~labelIsStr THEN <<"TypeError:label">>
        ELSE IF m \in {NODE_MERGE_ON_ID_IGNORE_ON_MATCH, NODE_MERGE_ON_ID_SET_ATTR_ON_MATCH}
                /\ id = "none"
        THEN <<"ValueError:id_needed">>
        ELSE IF id = "absent" THEN all \o <<"KeyError:id">>
        ELSE IF id = "present" /\ m # NODE_MERGE_ON_ALL_ATTRIBUTES
        THEN all \o <<"index", "run">>
        ELSE all \o <<"run">>

\* save_nodes_df: can_run_parallel
NodesDfParallel(mode, custom) ==
    /\ NodesDfMode(mode, custom) \in {NODE_CREATE, NODE_MERGE_ON_ID_IGNORE_ON_MATCH}
    /\ ~custom

\* save_nodes_np: the creation mode in effect
NodesNpMode(mode) == IF mode = None THEN NODE_CREATE ELSE mode

NodesNpPlanNoShapeCheck(labelIsStr, attrsAreStrs, shapeOk, mode, custom, id) ==
    LET m == NodesNpMode(mode)
        all == IF m = NODE_MERGE_ON_ALL_ATTRIBUTES THEN <<"index">> ELSE <<>>
        idx == IF id = "present" /\ m # NODE_MERGE_ON_ALL_ATTRIBUTES
               THEN <<"index">> ELSE <<>>
    IN  IF ~labelIsStr THEN <<"TypeError:label">>
        ELSE IF ~custom /\ ~attrsAreStrs THEN <<"TypeError:attributes">>
        ELSE IF m \in {NODE_MERGE_ON_ID_IGNORE_ON_MATCH, NODE_MERGE_ON_ID_SET_ATTR_ON_MATCH}
                /\ id = "none"
        THEN <<"ValueError:id_needed">>
        ELSE IF id = "absent" THEN all \o <<"ValueError:id_not_in_attributes">>
        ELSE IF ~custom THEN all \o idx \o <<"TypeError:nodes_from_rows">>
        ELSE all \o idx \o <<"run">>

\* save_nodes_np up to the batch loop; without a custom statement
\* Cypher.nodes_from_rows is called with four of its five required arguments
NodesNpPlan(labelIsStr, attrsAreStrs, shapeOk, mode, custom, id) ==
    LET m == NodesNpMode(mode)
        all == IF m = NODE_MERGE_ON_ALL_ATTRIBUTES THEN <<"index">> ELSE <<>>
        idx == IF id = "present" /\ m # NODE_MERGE_ON_ALL_ATTRIBUTES
               THEN <<"index">> ELSE <<>>
    IN  IF ~labelIsStr THEN <<"TypeError:label">>
        ELSE IF ~custom /\ ~attrsAreStrs THEN <<"TypeError:attributes">>
        ELSE IF ~shapeOk THEN <<"ValueError:shape">>
        ELSE IF m \in {NODE_MERGE_ON_ID_IGNORE_ON_MATCH, NODE_MERGE_ON_ID_SET_ATTR_ON_MATCH}
                /\ id = "none"
        THEN <<"ValueError:id_needed">>
        ELSE IF id = "absent" THEN all \o <<"ValueError:id_not_in_attributes">>
        ELSE IF ~custom THEN all \o idx \o <<"TypeError:nodes_from_rows">>
        ELSE all \o idx \o <<"run">>

\* save_nodes_np: the condition of the parallel branch
NodesNpParallel(mode) ==
    NodesNpMode(mode) \in {NODE_CREATE, NODE_MERGE_ON_ID_IGNORE_ON_MATCH}

\* save_rel_df: the modes in effect
RelDfModes(src, dst, rel) ==
    [node |-> None,
     src |-> IF src = None THEN RELNODE_MERGE ELSE src,
     dst |-> IF dst = None THEN RELNODE_MERGE ELSE dst,
     rel |-> IF rel = None THEN REL_CREATE ELSE rel]

\* save_rel_df up to the batch loop. idsInDf: src_id and dst_id are columns of
\* df; relAttrs: some column is claimed by neither endpoint; endpointAttrsInDf:
\* every src/dst attribute is a column of df
RelDfPlan(labelIsStr, namesAreStrs, idsInDf, relAttrs, endpointAttrsInDf, custom) ==
    IF ~labelIsStr THEN <<"TypeError:label">>
    ELSE IF ~namesAreStrs THEN <<"TypeError:name">>
    ELSE IF ~idsInDf THEN <<"KeyError:id">>
    ELSE IF ~relAttrs THEN <<"index", "index", "AssertionError:create_rel_index">>
    ELSE IF ~custom /\ ~endpointAttrsInDf
    THEN <<"index", "index", "index", "AssertionError:rels_from_rows">>
    ELSE <<"index", "index", "index", "run">>

RelDfParallelEdgeOnly(m) == m.rel = REL_CREATE

\* save_rel_df: can_run_parallel, of the modes in effect
RelDfParallel(m) ==
    /\ m.rel = REL_CREATE
    /\ m.src \in {RELNODE_MATCH, REL_CREATE}
    /\ m.dst \in {RELNODE_MATCH, REL_CREATE}

\* the row source: its rows are numbered 1..n
Rows(n) == [i \in 1..n |-> i]

SliceShort(rows, offset, batch_size) ==
    SubSeq(rows, offset + 1, Min(offset + batch_size - 1, Len(rows)))

\* df[offset:(offset + batch_size)], array[offset:(offset + batch_size)]
Slice(rows, offset, batch_size) ==
    SubSeq(rows, offset + 1, Min(offset + batch_size, Len(rows)))

\* number of values of range(0, n, batch_size), for batch_size > 0
NumBatches(n, batch_size) == (n + batch_size - 1) \div batch_size

BatchSizes == -1..MaxRows

\* the inputs of a run: no more batches than the pool's jobs of this run
Fits(n, bs) == IF bs <= 0 THEN TRUE ELSE NumBatches(n, bs) <= MaxJobs

\* a bulk save is called, the first of the run; len(df) and batch_size are read
\* first by the batch loop
Begin(kind, modes, custom, args, plan, parallel) ==
    /\ pc = "idle"
    /\ save.pc = "none"
    /\ pc' = "save"
    /\ save' = [NoSave EXCEPT !.pc = "plan", !.kind = kind, !.modes = modes,
                              !.custom = custom, !.args = args, !.plan = plan,
                              !.parallel = parallel]
    /\ batches' = <<>>
    /\ UNCHANGED <<bmVars, lock, futures, jobs, awaitIdx, scopeVars, sessVars, last>>
    /\ UNCHANGED <<text, result>>

\* save_nodes_df(df, label, id_, batch_size, creation_mode, cypher=custom)
save_nodes_df ==
    \E mode \in NodeModes \cup {None}, custom \in BOOLEAN, labelIsStr \in BOOLEAN,
       id \in {"none", "present", "absent"} :
        Begin("nodes_df", [NoModes EXCEPT !.node = NodesDfMode(mode, custom)], custom,
              [NoArgs EXCEPT !.labelIsStr = labelIsStr, !.id = id],
              NodesDfPlan(labelIsStr, mode, custom, id), NodesDfParallel(mode, custom))

\* save_nodes_np(array, attributes, label, id_, batch_size, creation_mode, cypher=custom)
save_nodes_np ==
    \E mode \in NodeModes \cup {None}, custom \in BOOLEAN, labelIsStr \in BOOLEAN,
       attrsAreStrs \in BOOLEAN, shapeOk \in BOOLEAN,
       id \in {"none", "present", "absent"} :
        Begin("nodes_np", [NoModes EXCEPT !.node = NodesNpMode(mode)], custom,
              [NoArgs EXCEPT !.labelIsStr = labelIsStr, !.attrsAreStrs = attrsAreStrs,
                             !.shapeOk = shapeOk, !.id = id],
              NodesNpPlan(labelIsStr, attrsAreStrs, shapeOk, mode, custom, id),
              NodesNpParallel(mode))

\* save_rel_df(df, src_label, src_id, dst_label, dst_id, label, batch_size, ...)
save_rel_df ==
    \E src \in RelNodeModes \cup {None},
       dst \in RelNodeModes \cup {None}, rel \in RelModes \cup {None},
       custom \in BOOLEAN, labelIsStr \in BOOLEAN, namesAreStrs \in BOOLEAN,
       idsInDf \in BOOLEAN, relAttrs \in BOOLEAN, endpointAttrsInDf \in BOOLEAN :
        Begin("rel_df", RelDfModes(src, dst, rel), custom,
              [NoArgs EXCEPT !.labelIsStr = labelIsStr, !.namesAreStrs = namesAreStrs,
                             !.idsInDf = idsInDf, !.relAttrs = relAttrs,
                             !.endpointAttrsInDf = endpointAttrsInDf],
              RelDfPlan(labelIsStr, namesAreStrs, idsInDf, relAttrs, endpointAttrsInDf,
                        custom),
              RelDfParallel(RelDfModes(src, dst, rel)))

\* create_node_index / create_rel_index: one write_query on the default database
SaveIndex(ok) ==
    /\ pc = "save" /\ save.pc = "plan"
    /\ Head(save.plan) = "index"
    /\ SequentialQuery("neo4j", ok, MaxSaveSessions)
    /\ save' = IF SequentialOutcome(ok) = "ok"
               THEN [save EXCEPT !.plan = Tail(@)]
               ELSE [save EXCEPT !.pc = "done", !.error = SequentialOutcome(ok)]
    /\ pc' = IF SequentialOutcome(ok) = "ok" THEN "save" ELSE "idle"
    /\ UNCHANGED <<lock, futures, jobs, awaitIdx, scopeVars, last, batches>>
    /\ UNCHANGED <<text, result>>

\* a check of the entry point, or of a function it calls, raises
SaveRaise ==
    /\ pc = "save" /\ save.pc = "plan"
    /\ Head(save.plan) \notin {"index", "run"}
    /\ save' = [save EXCEPT !.pc = "done", !.error = Head(save.plan)]
    /\ pc' = "idle"
    /\ UNCHANGED <<bmVars, lock, futures, jobs, awaitIdx, scopeVars, sessVars, last,
                   batches>>
    /\ UNCHANGED <<text, result>>

\* the batch loop is reached on the parallel path: with self.parallelism():
SaveParallel ==
    /\ pc = "save" /\ save.pc = "plan"
    /\ Head(save.plan) = "run"
    /\ save.parallel
    /\ Enter
    /\ \E n \in 0..MaxRows, bs \in BatchSizes :
          /\ Fits(n, bs)
          /\ save' = [save EXCEPT !.pc = "batch", !.path = "parallel", !.n = n, !.bs = bs]
    /\ UNCHANGED <<bmVars, lock, futures, jobs, pc, awaitIdx, sessVars, last, batches>>
    /\ UNCHANGED <<text, result>>

\* the batch loop is reached on the sequential path
SaveSequential ==
    /\ pc = "save" /\ save.pc = "plan"
    /\ Head(save.plan) = "run"
    /\ ~save.parallel
    /\ \E n \in 0..MaxRows, bs \in BatchSizes :
          /\ Fits(n, bs)
          /\ save' = [save EXCEPT !.pc = "batch", !.path = "sequential", !.n = n,
                                  !.bs = bs]
    /\ UNCHANGED <<bmVars, lock, futures, jobs, pc, awaitIdx, scopeVars, sessVars, last,
                   batches>>
    /\ UNCHANGED <<text, result>>

\* for offset in range(0, len(df), batch_size): there is a next offset
LoopContinues == save.bs > 0 /\ save.offset < save.n

\* the statement the batches execute: the cypher argument when one is given,
\* else the text built by Cypher.nodes_from_rows or Cypher.rels_from_rows
cypher_ == IF save.custom THEN "cypher" ELSE "Cypher.from_rows"

SaveBatchSequentialGoesOn(ok) ==
    /\ pc = "save" /\ save.pc = "batch" /\ save.path = "sequential"
    /\ LoopContinues
    /\ SequentialQuery("neo4j", ok, MaxSaveSessions)
    /\ batches' = Append(batches, [rows |-> Slice(Rows(save.n), save.offset, save.bs),
                                   job |-> 0, outcome |-> SequentialOutcome(ok),
                                   cypher |-> cypher_])
    /\ save' = [save EXCEPT !.offset = @ + save.bs]
    /\ UNCHANGED <<lock, futures, jobs, pc, awaitIdx, scopeVars, last>>
    /\ UNCHANGED <<text, result>>

\* one pass of the sequential loop: write_query(cypher, {"rows": rows_list})
SaveBatchSequential(ok) ==
    /\ pc = "save" /\ save.pc = "batch" /\ save.path = "sequential"
    /\ LoopContinues
    /\ SequentialQuery("neo4j", ok, MaxSaveSessions)
    /\ batches' = Append(batches, [rows |-> Slice(Rows(save.n), save.offset, save.bs),
                                   job |-> 0, outcome |-> SequentialOutcome(ok),
                                   cypher |-> cypher_])
    /\ save' = IF SequentialOutcome(ok) = "ok"
               THEN [save EXCEPT !.offset = @ + save.bs]
               ELSE [save EXCEPT !.pc = "done", !.error = SequentialOutcome(ok)]
    /\ pc' = IF SequentialOutcome(ok) = "ok" THEN "save" ELSE "idle"
    /\ UNCHANGED <<lock, futures, jobs, awaitIdx, scopeVars, last>>
    /\ UNCHANGED <<text, result>>

\* one pass of the parallel loop: parallel_write_query(cypher, {"rows": rows_list})
SaveBatchParallel ==
    /\ pc = "save" /\ save.pc = "batch" /\ save.path = "parallel"
    /\ LoopContinues
    /\ ParallelQuery("neo4j")
    /\ batches' = Append(batches, [rows |-> Slice(Rows(save.n), save.offset, save.bs),
                                   job |-> NextJob, outcome |-> "future",
                                   cypher |-> cypher_])
    /\ save' = [save EXCEPT !.offset = @ + save.bs]
    /\ UNCHANGED <<bmVars, lock, pc, awaitIdx, scopeVars, sessVars, last>>
    /\ UNCHANGED <<text, result>>

\* range(0, len(df), 0) raises ValueError; a negative step gives no offset
RangeError == IF save.bs = 0 THEN "ValueError:range" ELSE "none"

\* the sequential loop ends, and the bulk save with it
SaveEndSequential ==
    /\ pc = "save" /\ save.pc = "batch" /\ save.path = "sequential"
    /\ ~LoopContinues
    /\ save' = [save EXCEPT !.pc = "done", !.error = RangeError]
    /\ pc' = "idle"
    /\ UNCHANGED <<bmVars, lock, futures, jobs, awaitIdx, scopeVars, sessVars, last,
                   batches>>
    /\ UNCHANGED <<text, result>>

\* the parallel loop ends: the parallelism() block is left, finally: begins
SaveEndParallel ==
    /\ pc = "save" /\ save.pc = "batch" /\ save.path = "parallel"
    /\ ~LoopContinues
    /\ save' = [save EXCEPT !.pc = "exit", !.bodyError = RangeError]
    /\ pc' = "await"
    /\ awaitIdx' = 1
    /\ UNCHANGED <<bmVars, lock, futures, jobs, scopeVars, sessVars, last, batches>>
    /\ UNCHANGED <<text, result>>

\* ---------------------------------------------------------- specifications
JobStep ==
    \/ \E j \in JobIds : JobStart(j)
    \/ \E j \in JobIds, ok \in BOOLEAN : JobRun(j, ok)
    \/ \E j \in JobIds : JobLock(j)
    \/ \E j \in JobIds : JobAppend(j)

Next ==
    \/ \E db \in DBs, ok \in BOOLEAN : read_or_write_query(db, ok)
    \/ \E db \in DBs : parallel_query(db)
    \/ JobStep
    \/ EnterScope
    \/ ExitScope
    \/ AwaitRaise
    \/ AwaitNext
    \/ AwaitDone

Spec == Init /\ [][Next]_vars

NextSave ==
    \/ save_nodes_df
    \/ save_nodes_np
    \/ save_rel_df
    \/ \E ok \in BOOLEAN : SaveIndex(ok)
    \/ SaveRaise
    \/ SaveParallel
    \/ SaveSequential
    \/ \E ok \in BOOLEAN : SaveBatchSequential(ok)
    \/ SaveBatchParallel
    \/ SaveEndSequential
    \/ SaveEndParallel
    \/ JobStep
    \/ AwaitRaise
    \/ AwaitNext
    \/ AwaitDone

SpecSave == Init /\ [][NextSave]_vars

\* ------------------------------------------------- text and statements
\* A Python str is modelled by the sequence of its characters, a character by
\* a string of length one; the backtick, which cannot be written in a string
\* of this language, by the name below.
Backtick == "backtick"
LF == "\n"
DQ == "\""
BSL == "\\"

\* the characters of a literal that holds no backtick
Chars(s) == [i \in 1..Len(s) |-> SubSeq(s, i, i)]

\* str.replace(old, new) for a one-character old
RECURSIVE replace(_, _, _)
replace(str_, old, new) ==
    IF str_ = <<>> THEN <<>>
    ELSE (IF Head(str_) = old THEN new ELSE <<Head(str_)>>)
             \o replace(Tail(str_), old, new)

\* sep.join(strs)
RECURSIVE join(_, _)
join(sep, strs) ==
    IF strs = <<>> THEN <<>>
    ELSE IF Len(strs) = 1 THEN strs[1]
    ELSE strs[1] \o sep \o join(sep, Tail(strs))

escapeNoDoubling(str_) == <<Backtick>> \o str_ \o <<Backtick>>

\* "`" + str_.replace("`", "``") + "`"
escape(str_) == <<Backtick>> \o replace(str_, Backtick, <<Backtick, Backtick>>) \o <<Backtick>>

escaped_strQuotesFirst(str_) ==
    <<DQ>> \o replace(replace(str_, DQ, <<BSL, DQ>>), BSL, <<BSL, BSL>>) \o <<DQ>>

\* '"' + str_.replace("\\", r"\\").replace('"', r'\"') + '"'
escaped_str(str_) ==
    <<DQ>> \o replace(replace(str_, BSL, <<BSL, BSL>>), DQ, <<BSL, DQ>>) \o <<DQ>>

\* str(i) for a natural number i
RECURSIVE str(_)
str(i) ==
    IF i < 10 THEN <<Chars("0123456789")[i + 1]>>
    ELSE str(i \div 10) \o <<Chars("0123456789")[(i % 10) + 1]>>

\* a rename map is a function from row keys to attribute names;
\* row_attr_map.get(key, key)
NoMap == [k \in {} |-> k]
get(row_attr_map, key) == IF key \in DOMAIN row_attr_map THEN row_attr_map[key] ELSE key

row_as_dictUnquoted(attributes, in_name, out_name) ==
    Chars("{")
    \o join(Chars(", "), [i \in 1..Len(attributes) |->
                attributes[i] \o Chars(": ") \o in_name
                    \o Chars("[") \o str(i - 1) \o Chars("]")])
    \o Chars("} AS ") \o out_name

\* Cypher.row_as_dict without attribute_indexes: enumerate(attributes)
row_as_dict(attributes, in_name, out_name) ==
    Chars("{")
    \o join(Chars(", "), [i \in 1..Len(attributes) |->
                escape(attributes[i]) \o Chars(": ") \o escape(in_name)
                    \o Chars("[") \o str(i - 1) \o Chars("]")])
    \o Chars("} AS ") \o escape(out_name)

\* Cypher.inline_attributes for attributes that are strings
inline_attributes(attributes, row_attr_map, row_name) ==
    IF attributes = <<>> THEN <<>>
    ELSE Chars("{")
         \o join(Chars(", "), [i \in 1..Len(attributes) |->
                     escape(get(row_attr_map, attributes[i])) \o Chars(": ")
                         \o escape(row_name) \o Chars("[")
                         \o escaped_str(attributes[i]) \o Chars("]")])
         \o Chars("}")

\* Cypher.node_pattern
node_pattern(labels, attributes, name) ==
    Chars("(") \o name
    \o join(<<>>, [i \in 1..Len(labels) |-> Chars(":") \o escape(labels[i])])
    \o (IF attributes # <<>> /\ Head(attributes) # " "
        THEN Chars(" ") \o attributes ELSE attributes)
    \o Chars(")")

\* the id_ argument as the tuple (id_,) of the attributes to merge on:
\* Id(name) for a name, NoId for None
NoId == <<>>
Id(name) == <<name>>

\* what a statement builder does: it returns a text or raises
Returns(out) == [error |-> "none", out |-> out]
Raises(error) == [error |-> error, out |-> <<>>]

\* the lines every statement starts with
Unwind(all_attributes) ==
    Chars("UNWIND $rows AS row") \o <<LF>>
    \o Chars("WITH ") \o row_as_dict(all_attributes, Chars("row"), Chars("row")) \o <<LF>>

set_statement == Chars("SET n = row")

nodes_from_rowsSetAlways(attributes, id_, labels, creation_mode, row_attr_map) ==
    IF creation_mode = NODE_CREATE
    THEN Returns(Unwind(attributes) \o Chars("CREATE ")
                 \o node_pattern(labels, <<>>, Chars("n")) \o <<LF>> \o set_statement)
    ELSE IF creation_mode \in {NODE_MERGE_ON_ID_IGNORE_ON_MATCH,
                               NODE_MERGE_ON_ID_SET_ATTR_ON_MATCH}
    THEN IF id_ = NoId THEN Raises("AttributeError")
         ELSE Returns(Unwind(attributes) \o Chars("MERGE ")
                 \o node_pattern(labels,
                        inline_attributes(id_, row_attr_map, Chars("row")),
                        Chars("n"))
                 \o <<LF>> \o set_statement)
    ELSE IF creation_mode = NODE_MERGE_ON_ALL_ATTRIBUTES
    THEN Returns(Unwind(attributes) \o Chars("MERGE ")
                 \o node_pattern(labels,
                        inline_attributes(attributes, row_attr_map, Chars("row")),
                        Chars("n"))
                 \o <<LF>> \o set_statement)
    ELSE Raises("ValueError")

\* Cypher.nodes_from_rows; with id_ None the merge on the id fails in
\* inline_attributes((id_,)): escape(None) has no replace
nodes_from_rows(attributes, id_, labels, creation_mode, row_attr_map) ==
    IF creation_mode = NODE_CREATE
    THEN Returns(Unwind(attributes) \o Chars("CREATE ")
                 \o node_pattern(labels, <<>>, Chars("n")) \o <<LF>> \o set_statement)
    ELSE IF creation_mode \in {NODE_MERGE_ON_ID_IGNORE_ON_MATCH,
                               NODE_MERGE_ON_ID_SET_ATTR_ON_MATCH}
    THEN IF id_ = NoId THEN Raises("AttributeError")
         ELSE Returns(Unwind(attributes) \o Chars("MERGE ")
                 \o node_pattern(labels,
                        inline_attributes(id_, row_attr_map, Chars("row")),
                        Chars("n"))
                 \o <<LF>>
                 \o (IF creation_mode = NODE_MERGE_ON_ID_IGNORE_ON_MATCH
                     THEN Chars("ON CREATE") \o <<LF>> \o Chars("  ") \o set_statement
                     ELSE set_statement))
    ELSE IF creation_mode = NODE_MERGE_ON_ALL_ATTRIBUTES
    THEN Returns(Unwind(attributes) \o Chars("MERGE ")
                 \o node_pattern(labels,
                        inline_attributes(attributes, row_attr_map, Chars("row")),
                        Chars("n"))
                 \o <<LF>>)
    ELSE Raises("ValueError")

\* Cypher.rel_pattern
rel_pattern(src_node_pattern, dst_node_pattern, labels, attributes, name, directed) ==
    src_node_pattern \o Chars("-[") \o name
    \o join(<<>>, [i \in 1..Len(labels) |-> Chars(":") \o escape(labels[i])])
    \o Chars(" ") \o attributes \o Chars("]-")
    \o (IF directed THEN Chars(">") ELSE <<>>) \o dst_node_pattern

endpoint_create_statementMatchMerges(creation_mode, pattern) ==
    IF creation_mode \in {RELNODE_MERGE, RELNODE_MATCH}
    THEN Returns(Chars("MERGE ") \o pattern \o <<LF>>)
    ELSE IF creation_mode = RELNODE_CREATE
    THEN Returns(Chars("CREATE ") \o pattern \o <<LF>>)
    ELSE Raises("ValueError")

\* rels_from_rows: src_create_statement, and likewise dst_create_statement
endpoint_create_statement(creation_mode, pattern) ==
    IF creation_mode = RELNODE_MERGE
    THEN Returns(Chars("MERGE ") \o pattern \o <<LF>>)
    ELSE IF creation_mode = RELNODE_MATCH
    THEN Returns(Chars("MATCH ") \o pattern \o <<LF>>)
    ELSE IF creation_mode = RELNODE_CREATE
    THEN Returns(Chars("CREATE ") \o pattern \o <<LF>>)
    ELSE Raises("ValueError")

\* rels_from_rows: rel_create_statement
rel_create_statement(creation_mode, pattern) ==
    IF creation_mode = REL_CREATE THEN Returns(Chars("CREATE ") \o pattern)
    ELSE IF creation_mode = REL_MERGE THEN Returns(Chars("MERGE ") \o pattern)
    ELSE Raises("ValueError")

\* Cypher.rels_from_rows: the asserts, then the three statements in the order
\* src, dst, rel, the first unknown mode raising
rels_from_rows(src_attributes, dst_attributes, rel_attributes, all_attributes, src_labels, dst_labels, rel_labels, src_creation_mode, dst_creation_mode, rel_creation_mode, row_attr_map) ==
    LET src == endpoint_create_statement(src_creation_mode,
                   node_pattern(src_labels,
                       inline_attributes(src_attributes, row_attr_map, Chars("row")),
                       Chars("src")))
        dst == endpoint_create_statement(dst_creation_mode,
                   node_pattern(dst_labels,
                       inline_attributes(dst_attributes, row_attr_map, Chars("row")),
                       Chars("dst")))
        rel == rel_create_statement(rel_creation_mode,
                   rel_pattern(node_pattern(<<>>, <<>>, Chars("src")),
                               node_pattern(<<>>, <<>>, Chars("dst")),
                               rel_labels,
                               inline_attributes(rel_attributes, row_attr_map,
                                                 Chars("row")),
                               Chars("r"), TRUE))
    IN  IF ~(Range(src_attributes) \cup Range(dst_attributes)
                \cup Range(rel_attributes) \subseteq Range(all_attributes))
        THEN Raises("AssertionError")
        ELSE IF src.error # "none" THEN src
        ELSE IF dst.error # "none" THEN dst
        ELSE IF rel.error # "none" THEN rel
        ELSE Returns(Unwind(all_attributes) \o src.out \o dst.out \o rel.out)

\* the arguments of the statement builders: attribute names, lists of them
\* without repetition, label lists, rename maps
MaxAttrs == 2
AttrNames == {Chars("x"), Chars("y"), <<"k", Backtick, DQ>>}
AttrLists ==
    UNION {{l \in [1..n -> AttrNames] : \A i, j \in 1..n : i # j => l[i] # l[j]}
              : n \in 0..MaxAttrs}
LabelLists == {<<>>, <<Chars("P")>>, <<Chars("P"), <<"Q", Backtick>>>>}
Maps == {NoMap, [k \in {Chars("x")} |-> Chars("z")]}

\* the names handed to escape
MaxNameLen == 3
Alphabet == {"a", Backtick, DQ, BSL}
Names == UNION {[1..n -> Alphabet] : n \in 0..MaxNameLen}

\* a call escape(str_)
CallEscape ==
    /\ text = NoText
    /\ \E s \in Names :
          text' = [op |-> "escape", str_ |-> s, out |-> escape(s), error |-> "none"]
    /\ UNCHANGED <<bmVars, lock, futures, jobs, pc, awaitIdx, scopeVars, sessVars,
                   last, saveVars, result>>

\* a call escaped_str(str_)
CallEscapedStr ==
    /\ text = NoText
    /\ \E s \in Names :
          text' = [op |-> "escaped_str", str_ |-> s, out |-> escaped_str(s),
                   error |-> "none"]
    /\ UNCHANGED <<bmVars, lock, futures, jobs, pc, awaitIdx, scopeVars, sessVars,
                   last, saveVars, result>>

\* a call Cypher.nodes_from_rows(attributes, id_, labels, creation_mode,
\* row_attr_map); a creation_mode of None stands for any value that is no
\* NodeCreationMode
CallNodesFromRows ==
    /\ text = NoText
    /\ \E attributes \in AttrLists, id_ \in {Id(a) : a \in AttrNames} \cup {NoId},
          labels \in LabelLists, creation_mode \in NodeModes \cup {None},
          row_attr_map \in Maps :
          LET r == nodes_from_rows(attributes, id_, labels, creation_mode, row_attr_map)
          IN  text' = [op |-> "nodes_from_rows", attributes |-> attributes,
                       id_ |-> id_, labels |-> labels,
                       creation_mode |-> creation_mode,
                       row_attr_map |-> row_attr_map,
                       out |-> r.out, error |-> r.error]
    /\ UNCHANGED <<bmVars, lock, futures, jobs, pc, awaitIdx, scopeVars, sessVars,
                   last, saveVars, result>>

\* a call Cypher.rels_from_rows(...), as save_rel_df makes it: one label for
\* each endpoint and for the edge; a creation mode of None stands for any value
\* that is no member of the enumeration
CallRelsFromRows ==
    /\ text = NoText
    /\ \E src_attributes \in {<<Chars("x")>>, <<<<"k", Backtick, DQ>>>>},
          dst_attributes \in {<<Chars("y")>>},
          rel_attributes \in {<<>>, <<<<"k", Backtick, DQ>>>>},
          all_attributes \in AttrLists,
          src_creation_mode \in RelNodeModes \cup {None},
          dst_creation_mode \in RelNodeModes \cup {None},
          rel_creation_mode \in RelModes \cup {None},
          row_attr_map \in Maps :
          LET r == rels_from_rows(src_attributes, dst_attributes, rel_attributes,
                                  all_attributes,
                                  <<Chars("A")>>, <<Chars("B")>>, <<Chars("R")>>,
                                  src_creation_mode, dst_creation_mode,
                                  rel_creation_mode, row_attr_map)
          IN  text' = [op |-> "rels_from_rows",
                       src_attributes |-> src_attributes,
                       dst_attributes |-> dst_attributes,
                       rel_attributes |-> rel_attributes,
                       all_attributes |-> all_attributes,
                       src_labels |-> <<Chars("A")>>, dst_labels |-> <<Chars("B")>>,
                       rel_labels |-> <<Chars("R")>>,
                       src_creation_mode |-> src_creation_mode,
                       dst_creation_mode |-> dst_creation_mode,
                       rel_creation_mode |-> rel_creation_mode,
                       row_attr_map |-> row_attr_map,
                       out |-> r.out, error |-> r.error]
    /\ UNCHANGED <<bmVars, lock, futures, jobs, pc, awaitIdx, scopeVars, sessVars,
                   last, saveVars, result>>

\* save_rel_df: the attribute lists it derives from its arguments
MaxCols == 4
ColNames == {Chars("s"), Chars("t"), Chars("v"), Chars("w")}
ColLists ==
    UNION {{l \in [1..n -> ColNames] : \A i, j \in 1..n : i # j => l[i] # l[j]}
              : n \in 0..MaxCols}

\* non_rel_attributes = {src_id, dst_id, *src_attributes, *dst_attributes}
non_rel_attributes(src_id, dst_id, src_attributes, dst_attributes) ==
    {src_id, dst_id} \cup Range(src_attributes) \cup Range(dst_attributes)

rel_attributesKeepsIds(keys, src_id, dst_id, src_attributes, dst_attributes) ==
    LET unclaimed(a) == a \notin Range(src_attributes) \cup Range(dst_attributes)
    IN  SelectSeq(keys, unclaimed)

\* rel_attributes = [a for a in df.keys() if a not in non_rel_attributes]
rel_attributes(keys, src_id, dst_id, src_attributes, dst_attributes) ==
    LET unclaimed(a) ==
            a \notin non_rel_attributes(src_id, dst_id, src_attributes, dst_attributes)
    IN  SelectSeq(keys, unclaimed)

\* save_rel_df up to its index creation: the edge attributes, and the endpoint
\* attributes [src_id, *src_attributes], [dst_id, *dst_attributes]
SaveRelDfAttributes ==
    /\ text = NoText
    /\ \E keys \in ColLists, src_id \in ColNames, dst_id \in ColNames,
          src_attributes \in {<<>>, <<Chars("v")>>, <<Chars("w")>>},
          dst_attributes \in {<<>>, <<Chars("v")>>, <<Chars("w")>>} :
          text' = [op |-> "save_rel_df", keys |-> keys,
                   src_id |-> src_id, dst_id |-> dst_id,
                   rel_attributes |-> rel_attributes(keys, src_id, dst_id,
                                                     src_attributes, dst_attributes),
                   src_attributes |-> <<src_id>> \o src_attributes,
                   dst_attributes |-> <<dst_id>> \o dst_attributes]
    /\ UNCHANGED <<bmVars, lock, futures, jobs, pc, awaitIdx, scopeVars, sessVars,
                   last, saveVars, result>>

NextText ==
    \/ CallEscape
    \/ CallEscapedStr
    \/ CallNodesFromRows
    \/ CallRelsFromRows
    \/ SaveRelDfAttributes

\* ------------------------------------------------------------- results
\* A neo4j.Record is modelled by the sequence of its (key, value) pairs, a
\* Result by its keys and the list of its records.
MaxKeys == 2       \* keys of a query's result, and keys asked of select
MaxRecords == 2    \* records of a query's result
Keys == {"a", "b", "c"}
Values == {1, 2}

\* the results a query can return: distinct keys, every record with a value
\* for each key, in the order of the keys
KeyLists ==
    UNION {{l \in [1..n -> Keys] : \A i, j \in 1..n : i # j => l[i] # l[j]}
              : n \in 0..MaxKeys}
RecordsOf(keys) ==
    {[i \in 1..Len(keys) |-> <<keys[i], vs[i]>>] : vs \in [1..Len(keys) -> Values]}
Results ==
    UNION {{[keys |-> keys, records |-> rs]
               : rs \in UNION {[1..n -> RecordsOf(keys)] : n \in 0..MaxRecords}}
              : keys \in KeyLists}

\* ResultBase(keys, records)
Result(keys, records) == [keys |-> keys, records |-> records]

valuesByPosition(r, keys) ==
    [j \in 1..Len(keys) |-> IF j <= Len(r) THEN r[j][2] ELSE 0]

\* neo4j.Record.values(*keys): for each key the value the record holds for
\* it, None for a key the record does not hold
values(r, keys) ==
    [j \in 1..Len(keys) |->
        IF \E i \in 1..Len(r) : r[i][1] = keys[j]
        THEN r[CHOOSE i \in 1..Len(r) : r[i][1] = keys[j]][2]
        ELSE None]

\* zip(keys, vs) as a neo4j.Record
Record(keys, vs) == [j \in 1..Len(keys) |-> <<keys[j], vs[j]>>]

\* ResultBase.select(*keys)
select(self, keys) ==
    Result(keys, [i \in 1..Len(self.records) |->
                     Record(keys, values(self.records[i], keys))])

\* _query: a query returns Result(res.keys(), list(res))
QueryReturns ==
    /\ result = NoResult
    /\ \E r \in Results : result' = [op |-> "query", self |-> r]
    /\ UNCHANGED <<bmVars, lock, futures, jobs, pc, awaitIdx, scopeVars, sessVars,
                   last, saveVars, text>>

\* a call self.select(*keys) on the Result a query returned; keys may repeat
\* and may name keys the Result does not have
CallSelect ==
    /\ result.op = "query"
    /\ \E keys \in UNION {[1..n -> Keys] : n \in 0..MaxKeys} :
          result' = [op |-> "select", before |-> result.self, self |-> result.self,
                     keys |-> keys, returned |-> select(result.self, keys)]
    /\ UNCHANGED <<bmVars, lock, futures, jobs, pc, awaitIdx, scopeVars, sessVars,
                   last, saveVars, text>>

NextResult ==
    \/ QueryReturns
    \/ CallSelect

\* a query returns a Result and select is called on it
SpecResult == Init /\ [][NextResult]_vars

\* one call of a function that builds text, with any arguments (the functions
\* are pure: a result does not depend on the calls made before)
SpecText == Init /\ [][NextText]_vars

\* ------------------------------------------------------------------ claims
Finished(j) == jobs[j].st \in {"done", "failed"}

\* the step in which _await_futures raises out of the scope exit
ExitRaises ==
    /\ pc = "await" /\ pc' = "idle" /\ last'.outcome = "raised"
    /\ jobs[futures[awaitIdx]].err = "exec_error"
    /\ jobs[futures[awaitIdx]].scope = CurrentScope

\* C1: when the exit of a parallelism scope raises, every unit submitted in the
\* scope has completed or failed: no unit is still queued or running
C1_ExitRaisesOnlyAfterAllFinished ==
    [][ExitRaises => \A j \in JobIds : jobs[j].scope = CurrentScope => Finished(j)]_vars

\* C2: after a parallelism scope has exited, normally or by an exception, the
\* connector is in Sequential mode and every pending token list is empty
C2_AfterExitSequentialAndDrained ==
    (/\ last.op = "exit" /\ last.outcome \in {"ok", "raised"}
     /\ \A j \in JobIds : jobs[j].err # "usage_error")
        => (~parallel_mode /\ \A d \in DBs : parallel_bookmarks[d] = <<>>)

\* the step that opens a session on d
Opens(d) == sessionsOpened' = sessionsOpened + 1 /\ opened'.db = d

\* C3: the first session opened on D after the exit of a scope whose parallel
\* sessions on D all closed cleanly is seeded with a token set that contains the
\* closing token of every one of them
C3_NextSessionSeesAllParallelWrites ==
    [][\A d \in DBs : Opens(d) => mustSee[d] \subseteq Range(opened'.seed)]_vars

C3_Witness ==
    /\ sessionsOpened = 3
    /\ opened.seed \in {<<1, 2>>, <<2, 1>>}
    /\ last.op = "seq"
    /\ \A j \in JobIds : jobs[j].st = "done" /\ jobs[j].db = opened.db

\* C4: a session opened on D when the last session closed on D was a sequential
\* one that closed cleanly is seeded with exactly the token of that close
C4_SeededWithLastSequentialToken ==
    [][\A d \in DBs : (Opens(d) /\ lastSeqTok[d] # 0)
                         => opened'.seed = <<lastSeqTok[d]>>]_vars

C4_Witness ==
    /\ sessionsOpened = 3
    /\ opened.seed = <<2>>
    /\ bookmarks[opened.db] = <<3>>
    /\ \A j \in JobIds : jobs[j].st = "unused"

C6_ParallelInSequentialRaises ==
    [][((\E db \in DBs : parallel_query(db)) /\ ~parallel_mode)
          => last'.outcome = "usage_error"]_vars

\* the closing tokens of the parallel sessions on d, among the futures of the
\* scope, whose close has completed
ClosedTokens(d) ==
    {jobs[futures[i]].tok : i \in {k \in 1..Len(futures) :
                                     jobs[futures[k]].st = "done" /\ jobs[futures[k]].db = d}}

\* C7: the pending token list of D holds exactly the closing tokens of the
\* parallel sessions on D that have closed, each once, in every interleaving
C7_NoPendingTokenLost ==
    \A d \in DBs :
        /\ Range(parallel_bookmarks[d]) = ClosedTokens(d)
        /\ Len(parallel_bookmarks[d]) = Cardinality(ClosedTokens(d))

C7_Witness ==
    \E d \in DBs :
        /\ Len(parallel_bookmarks[d]) = 2
        /\ \A j \in JobIds : jobs[j].st = "done" /\ jobs[j].db = d
        /\ jobs[1].seed = jobs[2].seed
        /\ pc = "idle" /\ scopes # <<>>

RECURSIVE Flatten(_)
Flatten(bs) == IF bs = <<>> THEN <<>> ELSE Head(bs).rows \o Flatten(Tail(bs))

\* a bulk save has returned normally from the sequential batch loop
SequentialSaveReturned ==
    save.pc = "done" /\ save.path = "sequential" /\ save.error = "none"

\* C8: for a row source of n rows and a batch size of at least 1, the
\* sequential batch path visits every row exactly once, in the original order,
\* in ceil(n/batch_size) batches, each a contiguous slice of at most batch_size
\* rows
C8_SequentialBatchesPartitionRows ==
    (SequentialSaveReturned /\ save.bs >= 1)
        => /\ Flatten(batches) = Rows(save.n)
           /\ Len(batches) * save.bs >= save.n
           /\ (Len(batches) - 1) * save.bs < save.n \/ Len(batches) = 0
           /\ \A i \in 1..Len(batches) :
                /\ Len(batches[i].rows) \in 1..save.bs
                /\ batches[i].rows =
                     SubSeq(Rows(save.n), (i - 1) * save.bs + 1, Min(i * save.bs, save.n))

C8_Witness ==
    /\ SequentialSaveReturned
    /\ save.n = 3 /\ save.bs = 2
    /\ batches = << [rows |-> <<1, 2>>, job |-> 0, outcome |-> "ok",
                     cypher |-> cypher_],
                    [rows |-> <<3>>, job |-> 0, outcome |-> "ok",
                     cypher |-> cypher_] >>

\* the exceptions with which the entry points reject their arguments
Rejections ==
    {"TypeError:label", "TypeError:attributes", "TypeError:name", "ValueError:shape",
     "ValueError:id_needed", "KeyError:id", "ValueError:id_not_in_attributes"}

\* the bulk save has ended, was not rejected, and its index creation succeeded
SaveWentThrough ==
    /\ save.pc = "done"
    /\ save.error \notin Rejections
    /\ ~(save.path = "none" /\ save.error \in {"exec_error", "usage_error"})

\* C9: a node bulk write with the library's statement takes the parallel path
\* when the creation mode is CREATE or MERGE_ON_ID_IGNORE_ON_MATCH and not when
\* it is MERGE_ON_ID_SET_ATTR_ON_MATCH or MERGE_ON_ALL_ATTRIBUTES, from
\* save_nodes_df and from save_nodes_np
C9_NodeParallelPathByMode ==
    (save.kind \in {"nodes_df", "nodes_np"} /\ ~save.custom /\ SaveWentThrough)
        => (save.path = "parallel"
              <=> save.modes.node \in {NODE_CREATE, NODE_MERGE_ON_ID_IGNORE_ON_MATCH})

\* C10: save_rel_df takes the parallel path exactly when the edge mode is
\* CREATE and each endpoint mode is MATCH or CREATE
C10_RelParallelPathByModes ==
    (save.kind = "rel_df" /\ save.path # "none")
        => (save.path = "parallel"
              <=> /\ save.modes.rel = REL_CREATE
                  /\ save.modes.src \in {RELNODE_MATCH, RELNODE_CREATE}
                  /\ save.modes.dst \in {RELNODE_MATCH, RELNODE_CREATE})

\* C11: save_rel_df with src mode MATCH, dst mode MATCH and edge mode CREATE
\* runs its batches on the parallel path; with src mode MERGE instead it runs
\* them on the sequential path
C11_MatchMatchCreateParallelMergeNot ==
    (/\ save.kind = "rel_df" /\ save.path # "none"
     /\ save.modes.rel = REL_CREATE /\ save.modes.dst = RELNODE_MATCH)
        => /\ save.modes.src = RELNODE_MATCH => save.path = "parallel"
           /\ save.modes.src = RELNODE_MERGE => save.path = "sequential"

C11_Witness ==
    /\ save.kind = "rel_df" /\ save.pc = "done" /\ save.error = "none"
    /\ save.modes = [node |-> None, src |-> RELNODE_MATCH, dst |-> RELNODE_MATCH,
                     rel |-> REL_CREATE]
    /\ save.path = "parallel"
    /\ Len(batches) = 2

\* the step in which the sequential batch loop executes one more batch
SequentialBatchStep ==
    pc = "save" /\ save.path = "sequential" /\ Len(batches') = Len(batches) + 1

\* C12: on the sequential batch path every batch is the next slice of the row
\* source, executed in a session of its own, and a batch after the first is
\* started only when the batch before it has completed and its closing token
\* is the bookmark of the database: the session is seeded with exactly it
C12_SequentialBatchesChained ==
    [][SequentialBatchStep =>
          /\ sessionsOpened' = sessionsOpened + 1
          /\ opened'.db = "neo4j"
          /\ batches'[Len(batches')].rows =
                SubSeq(Rows(save.n), Len(batches) * save.bs + 1,
                       Min((Len(batches) + 1) * save.bs, save.n))
          /\ Len(batches) >= 1 =>
                /\ batches[Len(batches)].outcome = "ok"
                /\ lastSeqTok["neo4j"] = sessionsOpened
                /\ bookmarks["neo4j"] = <<sessionsOpened>>
                /\ opened'.seed = <<sessionsOpened>>]_vars

C12_Witness ==
    /\ save.path = "sequential" /\ save.pc = "done" /\ save.error = "none"
    /\ save.n = 2 /\ save.bs = 1
    /\ Len(batches) = 2
    /\ sessionsOpened = 3
    /\ opened.seed = <<2>>
    /\ bookmarks["neo4j"] = <<3>>

\* the step in which the exit of a parallelism scope returns normally
ExitReturns == pc = "await" /\ pc' = "idle" /\ last'.outcome = "ok"

\* C13: the exit of a parallelism scope never returns normally when a unit
\* submitted in the scope has failed with an execution error (a bulk save on
\* the parallel path leaves its scope by the same step)
C13_FailedUnitNeverExitsNormally ==
    [][ExitReturns => /\ \A j \in JobIds :
                           jobs[j].scope = CurrentScope => jobs[j].err # "exec_error"
                      /\ \A i \in 1..Len(batches) :
                           batches[i].job # 0 => jobs[batches[i].job].st = "done"]_vars

C13_Witness ==
    /\ last.op = "exit" /\ last.outcome = "raised"
    /\ pc = "idle"
    /\ jobs[1].st = "done" /\ jobs[1].scope = 1
    /\ jobs[2].err = "exec_error" /\ jobs[2].scope = 1
    /\ scopesEntered = 1

\* a node bulk save was called in a merge-on-id mode without a primary key
MergeOnIdWithoutId ==
    /\ save.kind \in {"nodes_df", "nodes_np"}
    /\ save.modes.node \in {NODE_MERGE_ON_ID_IGNORE_ON_MATCH,
                            NODE_MERGE_ON_ID_SET_ATTR_ON_MATCH}
    /\ save.args.id = "none"

\* C14: a node bulk save in mode MERGE_ON_ID_IGNORE_ON_MATCH or
\* MERGE_ON_ID_SET_ATTR_ON_MATCH without a primary key ends with an error of its
\* argument checks (ValueError "id_ is needed" when its other arguments are
\* accepted), and no session is opened, no index created and no batch executed
\* or submitted; from save_nodes_df and from save_nodes_np
C14_MergeOnIdNeedsIdBeforeAnySession ==
    MergeOnIdWithoutId
        => /\ sessionsOpened = 0 /\ batches = <<>> /\ futures = <<>>
           /\ save.path = "none" /\ ~parallel_mode
           /\ save.pc = "done" =>
                 /\ save.error \in {"TypeError:label", "TypeError:attributes",
                                    "ValueError:shape", "ValueError:id_needed"}
                 /\ (/\ save.args.labelIsStr /\ save.args.shapeOk
                     /\ save.args.attrsAreStrs \/ save.custom)
                        => save.error = "ValueError:id_needed"

C14_Witness ==
    /\ MergeOnIdWithoutId
    /\ save.kind = "nodes_np" /\ ~save.custom
    /\ save.pc = "done" /\ save.error = "ValueError:id_needed"
    /\ sessionsOpened = 0

\* save_rel_df was called with a declared endpoint attribute that is no column
\* of the row source, and with labels and ids that pass its checks
EndpointAttributeAbsent ==
    /\ save.kind = "rel_df"
    /\ ~save.args.endpointAttrsInDf
    /\ save.args.labelIsStr /\ save.args.namesAreStrs /\ save.args.idsInDf

ShapeMismatch == save.kind = "nodes_np" /\ ~save.args.shapeOk

\* C16: save_nodes_np called with an array whose column count differs from the
\* number of declared attributes ends with an error of its argument checks
\* (ValueError for the shape when label and attributes are accepted) before
\* batching begins: no session is opened, no batch executed or submitted, no
\* parallelism scope entered
C16_ShapeMismatchRejectedBeforeBatching ==
    ShapeMismatch
        => /\ sessionsOpened = 0 /\ batches = <<>> /\ futures = <<>>
           /\ save.path = "none" /\ ~parallel_mode /\ scopes = <<>>
           /\ save.pc = "done" =>
                 /\ save.error \in {"TypeError:label", "TypeError:attributes",
                                    "ValueError:shape"}
                 /\ (/\ save.args.labelIsStr
                     /\ save.args.attrsAreStrs \/ save.custom)
                        => save.error = "ValueError:shape"

C16_Witness ==
    /\ ShapeMismatch
    /\ save.custom /\ save.modes.node = NODE_MERGE_ON_ALL_ATTRIBUTES
    /\ save.args.id = "present"
    /\ save.pc = "done" /\ save.error = "ValueError:shape"

\* C20: escape returns for every name; what it returns starts and ends with one
\* backtick, every backtick between the two stands in a doubled pair, undoubling
\* the pairs gives the name back, and no other name has the same result.
RECURSIVE Paired(_)
Paired(s) ==
    IF s = <<>> THEN TRUE
    ELSE IF Head(s) # Backtick THEN Paired(Tail(s))
    ELSE Len(s) >= 2 /\ s[2] = Backtick /\ Paired(Tail(Tail(s)))

RECURSIVE Undouble(_)
Undouble(s) ==
    IF s = <<>> THEN <<>>
    ELSE IF Head(s) = Backtick /\ Len(s) >= 2 /\ s[2] = Backtick
         THEN <<Backtick>> \o Undouble(Tail(Tail(s)))
    ELSE <<Head(s)>> \o Undouble(Tail(s))

Interior(s) == SubSeq(s, 2, Len(s) - 1)

C20_EscapeQuotesAndRoundTrips ==
    text.op = "escape" =>
        /\ text.error = "none"
        /\ Len(text.out) >= 2
        /\ text.out[1] = Backtick /\ text.out[Len(text.out)] = Backtick
        /\ Paired(Interior(text.out))
        /\ Undouble(Interior(text.out)) = text.str_
        /\ \A other \in Names : other # text.str_ => escape(other) # text.out

\* a name with backticks in it has been escaped
C20_Witness ==
    /\ text.op = "escape"
    /\ text.str_ = <<"a", Backtick, Backtick>>
    /\ text.out = <<Backtick, "a", Backtick, Backtick, Backtick, Backtick, Backtick>>

\* whitespace normalised: " ".join(s.split()), the words of s a blank apart
IsSpace(c) == c \in {" ", LF}

FirstSpace(s) ==
    IF \E i \in 1..Len(s) : IsSpace(s[i])
    THEN CHOOSE i \in 1..Len(s) : IsSpace(s[i]) /\ \A j \in 1..(i - 1) : ~IsSpace(s[j])
    ELSE Len(s) + 1

RECURSIVE Words(_)
Words(s) ==
    IF s = <<>> THEN <<>>
    ELSE IF IsSpace(Head(s)) THEN Words(Tail(s))
    ELSE <<SubSeq(s, 1, FirstSpace(s) - 1)>> \o Words(SubSeq(s, FirstSpace(s), Len(s)))

Normalised(s) == join(Chars(" "), Words(s))

\* a node pattern for the variable name with the labels, matching on the keys
\* (each under its stored name, its value taken from the row by the key)
InBackticks(s) == <<Backtick>> \o replace(s, Backtick, <<Backtick, Backtick>>) \o <<Backtick>>
PatternMatching(name, labels, keys, map) ==
    Chars("(") \o name
    \o join(<<>>, [i \in 1..Len(labels) |-> Chars(":") \o InBackticks(labels[i])])
    \o (IF keys = <<>> THEN <<>>
        ELSE Chars(" {")
             \o join(Chars(", "), [i \in 1..Len(keys) |->
                    InBackticks(get(map, keys[i])) \o Chars(": ")
                        \o InBackticks(Chars("row")) \o Chars("[")
                        \o escaped_str(keys[i]) \o Chars("]")])
             \o Chars("}"))
    \o Chars(")")

\* the table of the node creation modes: verb, keys matched on, SET clause
NodeVerb(mode) == IF mode = NODE_CREATE THEN Chars("CREATE") ELSE Chars("MERGE")
NodeKeys(mode, attributes, id_) ==
    IF mode = NODE_CREATE THEN <<>>
    ELSE IF mode = NODE_MERGE_ON_ALL_ATTRIBUTES THEN attributes
    ELSE id_
NodeSet(mode) ==
    IF mode = NODE_CREATE THEN Chars(" SET n = row")
    ELSE IF mode = NODE_MERGE_ON_ID_IGNORE_ON_MATCH THEN Chars(" ON CREATE SET n = row")
    ELSE IF mode = NODE_MERGE_ON_ID_SET_ATTR_ON_MATCH THEN Chars(" SET n = row")
    ELSE <<>>

NodeStatementBuilt ==
    /\ text.op = "nodes_from_rows"
    /\ text.creation_mode \in NodeModes
    /\ text.creation_mode \in {NODE_MERGE_ON_ID_IGNORE_ON_MATCH,
                                NODE_MERGE_ON_ID_SET_ATTR_ON_MATCH} => text.id_ # NoId

\* C17: for every attribute list and every node creation mode (a primary key
\* given where the mode merges on it), the statement nodes_from_rows returns is,
\* whitespace normalised, the UNWIND and WITH lines followed by: Create -> CREATE
\* of the pattern without a match clause, then SET n = row; MergeIgnoreOnMatch ->
\* MERGE of the pattern matching on the primary key only, then ON CREATE SET n =
\* row; MergeUpdateOnMatch -> MERGE on the primary key only, then SET n = row;
\* MergeOnAllAttributes -> MERGE matching on every attribute, and no SET clause.
C17_NodeStatementFollowsModeTable ==
    NodeStatementBuilt =>
        /\ text.error = "none"
        /\ Normalised(text.out) =
               Normalised(Unwind(text.attributes)) \o Chars(" ")
               \o NodeVerb(text.creation_mode) \o Chars(" ")
               \o PatternMatching(Chars("n"), text.labels,
                      NodeKeys(text.creation_mode, text.attributes, text.id_),
                      text.row_attr_map)
               \o NodeSet(text.creation_mode)

\* a statement has been built that merges on all attributes, the primary key
\* among them, and ends with the pattern
C17_Witness ==
    /\ NodeStatementBuilt
    /\ text.creation_mode = NODE_MERGE_ON_ALL_ATTRIBUTES
    /\ text.attributes = <<Chars("y"), Chars("x")>>
    /\ text.id_ = Id(Chars("x"))
    /\ text.labels = <<Chars("P")>>
    /\ text.row_attr_map = NoMap
    /\ text.out # Normalised(text.out)
    /\ text.out[Len(text.out)] = LF
    /\ text.out[Len(text.out) - 1] = ")"

\* the statement for attributes ["x", "y"], label "P", mode Create
CreateXYP ==
    /\ text.op = "nodes_from_rows"
    /\ text.attributes = <<Chars("x"), Chars("y")>>
    /\ text.labels = <<Chars("P")>>
    /\ text.creation_mode = NODE_CREATE

RECURSIVE Lines(_)
Lines(s) ==
    IF \E i \in 1..Len(s) : s[i] = LF
    THEN LET n == CHOOSE i \in 1..Len(s) : s[i] = LF /\ \A j \in 1..(i - 1) : s[j] # LF
         IN  <<SubSeq(s, 1, n - 1)>> \o Lines(SubSeq(s, n + 1, Len(s)))
    ELSE <<s>>

StartsWith(s, prefix) == Len(s) >= Len(prefix) /\ SubSeq(s, 1, Len(prefix)) = prefix
EndsWith(s, suffix) ==
    Len(s) >= Len(suffix) /\ SubSeq(s, Len(s) - Len(suffix) + 1, Len(s)) = suffix

\* the tables of the endpoint modes and of the edge modes
EndpointVerb(mode) ==
    IF mode = RELNODE_MERGE THEN Chars("MERGE")
    ELSE IF mode = RELNODE_MATCH THEN Chars("MATCH")
    ELSE Chars("CREATE")
EdgeVerb(mode) == IF mode = REL_CREATE THEN Chars("CREATE") ELSE Chars("MERGE")

\* rels_from_rows was called with endpoint and edge attributes that are all
\* declared
RelStatementAsked ==
    /\ text.op = "rels_from_rows"
    /\ Range(text.src_attributes) \cup Range(text.dst_attributes)
           \cup Range(text.rel_attributes) \subseteq Range(text.all_attributes)

RelModesKnown ==
    /\ text.src_creation_mode \in RelNodeModes
    /\ text.dst_creation_mode \in RelNodeModes
    /\ text.rel_creation_mode \in RelModes

\* C19: for every combination of src, dst and edge mode the statement
\* rels_from_rows returns has, after the UNWIND and WITH lines, one src clause
\* with the verb of the src mode (Merge MERGE, Match MATCH, Create CREATE), then
\* one dst clause with the verb of the dst mode, then one edge clause from src
\* to dst with the verb of the edge mode (Create CREATE, Merge MERGE); with an
\* unknown mode it raises ValueError and returns no statement.
C19_RelStatementVerbsByModeInOrder ==
    RelStatementAsked =>
        IF RelModesKnown
        THEN /\ text.error = "none"
             /\ Len(Lines(text.out)) = 5
             /\ Lines(text.out)[3] =
                    EndpointVerb(text.src_creation_mode) \o Chars(" ")
                    \o PatternMatching(Chars("src"), text.src_labels,
                                       text.src_attributes, text.row_attr_map)
             /\ Lines(text.out)[4] =
                    EndpointVerb(text.dst_creation_mode) \o Chars(" ")
                    \o PatternMatching(Chars("dst"), text.dst_labels,
                                       text.dst_attributes, text.row_attr_map)
             /\ StartsWith(Lines(text.out)[5],
                           EdgeVerb(text.rel_creation_mode) \o Chars(" (src)-[r:"))
             /\ EndsWith(Lines(text.out)[5], Chars("]->(dst)"))
        ELSE text.error = "ValueError" /\ text.out = <<>>

\* a statement has been built with three different modes
C19_Witness ==
    /\ RelStatementAsked
    /\ text.src_creation_mode = RELNODE_MATCH
    /\ text.dst_creation_mode = RELNODE_CREATE
    /\ text.rel_creation_mode = REL_MERGE
    /\ text.error = "none"
    /\ StartsWith(Lines(text.out)[3], Chars("MATCH (src:"))
    /\ StartsWith(Lines(text.out)[4], Chars("CREATE (dst:"))
    /\ StartsWith(Lines(text.out)[5], Chars("MERGE (src)-[r:"))

\* the number of backslashes that stand directly before position i of s
RECURSIVE BackslashesBefore(_, _)
BackslashesBefore(s, i) ==
    IF i > 1 /\ s[i - 1] = BSL THEN 1 + BackslashesBefore(s, i - 1) ELSE 0

Count(s, c) == Cardinality({i \in 1..Len(s) : s[i] = c})

\* reading a string literal's interior: a backslash stands for the character
\* after it
RECURSIVE Unescape(_)
Unescape(s) ==
    IF s = <<>> THEN <<>>
    ELSE IF Head(s) = BSL /\ Len(s) >= 2 THEN <<s[2]>> \o Unescape(Tail(Tail(s)))
    ELSE <<Head(s)>> \o Unescape(Tail(s))

\* C21: escaped_str returns for every string; what it returns stands between
\* two double quotes, every double quote between them has an odd number of
\* backslashes directly before it, the text between them ends with an even
\* number of backslashes, every backslash of the value appears doubled (the
\* backslashes are two for each of the value's plus one for each of its double
\* quotes), and reading the escapes gives the value back.
C21_EscapedStrBackslashesFirst ==
    text.op = "escaped_str" =>
        LET inner == Interior(text.out)
        IN  /\ text.error = "none"
            /\ Len(text.out) >= 2
            /\ text.out[1] = DQ /\ text.out[Len(text.out)] = DQ
            /\ \A i \in 1..Len(inner) :
                  inner[i] = DQ => BackslashesBefore(inner, i) % 2 = 1
            /\ BackslashesBefore(inner, Len(inner) + 1) % 2 = 0
            /\ Count(inner, BSL) = 2 * Count(text.str_, BSL) + Count(text.str_, DQ)
            /\ Unescape(inner) = text.str_

\* a value with a backslash directly before a double quote has been escaped
C21_Witness ==
    /\ text.op = "escaped_str"
    /\ text.str_ = <<BSL, DQ, "a">>
    /\ text.out = <<DQ, BSL, BSL, BSL, DQ, "a", DQ>>

\* the value the record r holds for key
ValueOf(r, key) == r[CHOOSE i \in 1..Len(r) : r[i][1] = key][2]

\* C22: select(keys) returns a Result whose keys are the keys asked for, with as
\* many records as the Result it was called on, in the same order, each record
\* holding for each key asked for (and present in the original) the value the
\* original record holds for it; the keys and records of the Result it was
\* called on are as before the call.
C22_SelectProjectsIntoNewResult ==
    result.op = "select" =>
        /\ result.returned.keys = result.keys
        /\ Len(result.returned.records) = Len(result.self.records)
        /\ \A i \in 1..Len(result.returned.records) :
              /\ Len(result.returned.records[i]) = Len(result.keys)
              /\ \A j \in 1..Len(result.keys) :
                    /\ result.returned.records[i][j][1] = result.keys[j]
                    /\ result.keys[j] \in Range(result.self.keys) =>
                          result.returned.records[i][j][2] =
                              ValueOf(result.before.records[i], result.keys[j])
        /\ result.self = result.before

\* two records with different values were projected to the second key first
C22_Witness ==
    /\ result.op = "select"
    /\ result.before = Result(<<"a", "b">>, << <<<<"a", 1>>, <<"b", 2>>>>,
                                              <<<<"a", 2>>, <<"b", 1>>>> >>)
    /\ result.keys = <<"b", "a">>
    /\ result.returned.records = << <<<<"b", 2>>, <<"a", 1>>>>,
                                    <<<<"b", 1>>, <<"a", 2>>>> >>

\* C23: save_nodes_np called without a custom statement, its arguments accepted
\* and its index creation done, builds the default statement of its creation
\* mode and reaches the batch loop that executes it.
C23_NodesNpBuildsDefaultStatement ==
    (save.kind = "nodes_np" /\ ~save.custom /\ SaveWentThrough)
        => /\ save.error # "TypeError:nodes_from_rows"
           /\ save.path \in {"parallel", "sequential"}

\* the mode flag goes from Parallel to Sequential; a parallelism scope is entered
LeavesParallel == parallel_mode /\ ~parallel_mode'
EntersScope == scopesEntered' = scopesEntered + 1

\* C24: when the mode flag goes from Parallel to Sequential the futures list
\* has been emptied, and when a parallelism scope is entered the futures list
\* holds no future of an earlier submission.
C24_FuturesDrainedAtExitAndEntry ==
    [][/\ LeavesParallel => futures' = <<>>
       /\ EntersScope => futures = <<>>]_vars

\* a step of a worker thread: a job that was submitted moves on
WorkerStep == \E j \in JobIds : jobs[j].st # "unused" /\ jobs'[j] # jobs[j]

SequentialSessionOn(d) ==
    /\ last'.no = last.no + 1 /\ last'.op = "seq"
    /\ sessionsOpened' = sessionsOpened + 1
    /\ opened'.db = d

\* C26: a sequential session on d that closes cleanly leaves the current
\* bookmark of d holding exactly the one token of that session and the pending
\* list of d empty; one whose body raises leaves the current bookmark (and the
\* pending list) of d as they were.
C26_SequentialCloseReplacesBookmark ==
    [][\A d \in DBs : SequentialSessionOn(d) =>
          /\ last'.outcome = "ok" =>
                /\ bookmarks'[d] = <<sessionsOpened'>>
                /\ parallel_bookmarks'[d] = <<>>
          /\ last'.outcome # "ok" =>
                /\ bookmarks'[d] = bookmarks[d]
                /\ parallel_bookmarks'[d] = parallel_bookmarks[d]]_vars

\* a sequential session seeded with the two tokens of a parallelism scope has
\* closed cleanly
C26_Witness ==
    /\ last.op = "seq" /\ last.outcome = "ok"
    /\ opened.db = "neo4j"
    /\ Len(opened.seed) = 2
    /\ bookmarks["neo4j"] = <<sessionsOpened>>
    /\ parallel_bookmarks["neo4j"] = <<>>

\* the job has opened a session
Opened(j) == jobs[j].tok # 0

\* control is inside a parallelism scope whose exit has not begun: a scope is
\* active and the exit in progress, if any, is that of a scope nested in it
InsideScope == scopes # <<>> /\ ~(Len(scopes) = 1 /\ pc = "await")

\* C27: the parallel sessions opened on a database for the units of one
\* parallelism scope are all seeded with the same tokens, and the current
\* bookmark of every database stays what it was at scope entry as long as
\* control is inside the scope and its exit has not begun.
C27_BookmarkFixedInsideScope ==
    [][/\ \A j, k \in JobIds :
             (/\ Opened(j) /\ Opened(k)
              /\ jobs[j].scope # 0 /\ jobs[j].scope = jobs[k].scope
              /\ jobs[j].db = jobs[k].db) => jobs[j].seed = jobs[k].seed
       /\ InsideScope => bookmarks' = bookmarks]_vars

\* a batch of the sequential path has failed
SequentialBatchFailed ==
    save.path = "sequential" /\ \E i \in 1..Len(batches) : batches[i].outcome # "ok"

\* C28: on the sequential batch path, when the write of a batch fails, the
\* bulk save ends with that error, the failed batch is the last one executed
\* (every batch before it succeeded), and the current bookmark is the token of
\* the session before the failed one: the batch before it, or for the first
\* batch the last index creation (none: no token).
C28_FailedBatchStopsSaveKeepsBookmark ==
    SequentialBatchFailed =>
        /\ \A i \in 1..(Len(batches) - 1) : batches[i].outcome = "ok"
        /\ save.pc = "done" /\ pc = "idle"
        /\ save.error = batches[Len(batches)].outcome
        /\ save.error # "none"
        /\ bookmarks["neo4j"] =
              IF sessionsOpened >= 2 THEN <<sessionsOpened - 1>> ELSE <<>>
        /\ Len(batches) >= 2 => lastSeqTok["neo4j"] = sessionsOpened - 1

\* the second batch failed: the bookmark is the first batch's token
C28_Witness ==
    /\ SequentialBatchFailed
    /\ save.n = 2 /\ save.bs = 1
    /\ Len(batches) = 2
    /\ batches[1].outcome = "ok" /\ batches[2].outcome = "exec_error"
    /\ sessionsOpened = 2
    /\ bookmarks["neo4j"] = <<1>>

\* the position of a in the list without repetition s
IndexOf(s, a) == CHOOSE i \in 1..Len(s) : s[i] = a

\* C29: in save_rel_df the edge attributes are exactly the columns of the row
\* source that neither endpoint claims (not src_id, dst_id or a src or dst
\* attribute), each once, in column order; the edge attribute list is disjoint
\* from both endpoint attribute lists and the three lists together cover every
\* column.
C29_EdgeAttributesAreUnclaimedColumns ==
    text.op = "save_rel_df" =>
        LET rel == text.rel_attributes
            claimed == Range(text.src_attributes) \cup Range(text.dst_attributes)
        IN  /\ Range(rel) = Range(text.keys) \ claimed
            /\ \A i, j \in 1..Len(rel) :
                  i < j => IndexOf(text.keys, rel[i]) < IndexOf(text.keys, rel[j])
            /\ Range(rel) \cap Range(text.src_attributes) = {}
            /\ Range(rel) \cap Range(text.dst_attributes) = {}
            /\ Range(text.keys) \subseteq Range(rel) \cup claimed

\* a row source whose two other columns, around the ids, are edge attributes
C29_Witness ==
    /\ text.op = "save_rel_df"
    /\ text.keys = <<Chars("w"), Chars("s"), Chars("v"), Chars("t")>>
    /\ text.src_attributes = <<Chars("s")>>
    /\ text.dst_attributes = <<Chars("t")>>
    /\ text.rel_attributes = <<Chars("w"), Chars("v")>>

\* the WITH line that would make row, the map SET n = row writes onto the
\* entity, hold each declared key under the name map stores it by
RowStoredAs(attributes, map) ==
    Chars("WITH {")
    \o join(Chars(", "), [i \in 1..Len(attributes) |->
                InBackticks(get(map, attributes[i])) \o Chars(": ")
                    \o InBackticks(Chars("row")) \o Chars("[") \o str(i - 1) \o Chars("]")])
    \o Chars("} AS ") \o InBackticks(Chars("row"))

\* the match clause of the statement names each key it matches on by its stored
\* name
MatchUsesStoredNames ==
    Lines(text.out)[3] =
        NodeVerb(text.creation_mode) \o Chars(" ")
        \o PatternMatching(Chars("n"), text.labels,
               NodeKeys(text.creation_mode, text.attributes, text.id_),
               text.row_attr_map)

\* where the statement has a SET clause, the row it writes holds each key under
\* its stored name
SetUsesStoredNames ==
    NodeSet(text.creation_mode) # <<>> =>
        Lines(text.out)[2] = RowStoredAs(text.attributes, text.row_attr_map)

\* C30: when nodes_from_rows is given a rename map, every attribute its
\* statement writes onto the node is stored under its mapped name: the match
\* clause and the SET clause both use the stored name for each renamed key, never
\* the raw row key.
C30_RenamedKeysStoredUnderMappedName ==
    (NodeStatementBuilt /\ text.row_attr_map # NoMap) =>
        /\ text.error = "none"
        /\ MatchUsesStoredNames
        /\ SetUsesStoredNames

\* a node bulk save was called with a statement of the caller
CustomNodeSave == save.kind \in {"nodes_df", "nodes_np"} /\ save.custom

\* C31: in save_nodes_df and in save_nodes_np a custom statement given together
\* with a creation mode is accepted with a warning only: the creation mode in
\* effect is CREATE, so that a merge-on-id mode without a primary key raises no
\* "id_ is needed" error, and every batch executes the custom statement.
C31_CustomStatementForcesCreate ==
    CustomNodeSave =>
        /\ save.modes.node = NODE_CREATE
        /\ save.error # "ValueError:id_needed"
        /\ \A i \in 1..Len(batches) : batches[i].cypher = "cypher"

\* the step in which the exit of a parallelism scope raises the exception of a
\* failed unit
RaisedExit == pc = "await" /\ pc' = "idle" /\ last'.outcome = "raised"

\* C32: the failure of a parallel unit is delivered by the exit of the scope in
\* which the unit was submitted and by no later scope: an exit raises only for a
\* unit of the scope being left, and after an exit that raised, with no scope
\* left active, the connector is in Sequential mode again, so that sequential
\* operations are usable and a later scope whose units succeed exits normally.
C32_FailureDeliveredByItsScopeOnly ==
    [][RaisedExit => /\ jobs[futures[awaitIdx]].scope = CurrentScope
                     /\ scopes' = <<>> => ~parallel_mode']_vars

\* C33: the mode flag is Parallel at every point where control is inside at
\* least one parallelism scope, nested scopes included: the exit of an inner
\* scope does not put the connector in Sequential mode while the outer scope is
\* still active.
C33_ParallelWhileAnyScopeActive == scopes # <<>> => parallel_mode

\* the unit was submitted while the connector was in Sequential mode
SubmittedInSequential(j) == jobs[j].st # "unused" /\ ~jobs[j].mode

\* C34: a parallel operation submitted while the connector is in Sequential mode
\* never opens a session, however the worker thread and the owning thread
\* interleave (the owning thread may enter a parallelism scope before the worker
\* starts the job).
C34_SequentialSubmissionOpensNoSession ==
    \A j \in JobIds : SubmittedInSequential(j) => ~Opened(j)

\* the bulk save has reached its batch loop and returned without raising
SaveReturned == save.pc = "done" /\ save.path # "none" /\ save.error = "none"

\* the batch has been executed: its write_query returned, or the unit it was
\* submitted as has completed
Executed(b) == IF b.job = 0 THEN b.outcome = "ok" ELSE jobs[b.job].st = "done"

\* C35: a bulk save that returns without raising has executed batches that
\* together cover every row of the row source exactly once, on the sequential
\* and on the parallel path, whatever integer batch size was passed (positive,
\* zero or negative).
C35_ReturnedSaveCoversEveryRow ==
    SaveReturned => /\ Flatten(batches) = Rows(save.n)
                    /\ \A i \in 1..Len(batches) : Executed(batches[i])

\* a step of the worker that runs a parallel session on d
ParallelSessionOn(d) ==
    \E j \in JobIds : jobs[j].st # "unused" /\ jobs[j].db = d /\ jobs'[j] # jobs[j]

\* the step that ends the exit of a parallelism scope, normally or by raising
ScopeExitEnds == pc = "await" /\ pc' = "idle"

\* every database other than d keeps its current bookmark and its pending list
OthersUnchanged(d) ==
    \A e \in DBs \ {d} : /\ bookmarks'[e] = bookmarks[e]
                         /\ parallel_bookmarks'[e] = parallel_bookmarks[e]

\* C36: operations concerning database d change only d's entries: a sequential
\* or parallel session on d leaves the current bookmark and the pending list of
\* every other database unchanged, and the exit of a parallelism scope leaves
\* unchanged the current bookmark of every database whose pending list is empty
\* (which, at the exit of a scope with no scope around it or inside it, is every
\* database on which no parallel session committed during the scope).
C36_OnlyOwnDatabaseChanges ==
    [][/\ \A d \in DBs : SequentialSessionOn(d) \/ ParallelSessionOn(d)
                            => OthersUnchanged(d)
       /\ ScopeExitEnds =>
             \A d \in DBs :
                 (\/ parallel_bookmarks[d] = <<>>
                  \/ Len(scopes) = 1 /\ ~Top.nested /\ Top.toks[d] = {})
                     => bookmarks'[d] = bookmarks[d]]_vars

\* a scope exit has consolidated the two parallel tokens of database other and
\* left the bookmark a sequential session gave database neo4j
C36_Witness ==
    /\ pc = "idle" /\ last.op = "exit" /\ last.outcome = "ok"
    /\ bookmarks["neo4j"] = <<1>>
    /\ Len(bookmarks["other"]) = 2
    /\ \A d \in DBs : parallel_bookmarks[d] = <<>>

\* save_rel_df was called with a row source whose every column is claimed by an
\* endpoint, has ended, was not rejected, and the index creation queries it ran
\* succeeded
NoEdgeAttributes == save.kind = "rel_df" /\ ~save.args.relAttrs /\ SaveWentThrough

\* C37: save_rel_df accepts a row source in which no column is left as an edge
\* attribute: it does not fail during index creation, and goes on to its batch
\* loop with a statement whose edge has no attributes.
C37_NoEdgeAttributesAccepted ==
    NoEdgeAttributes => /\ save.error # "AssertionError:create_rel_index"
                        /\ save.path \in {"parallel", "sequential"}

\* ----------------------------------------------------------- index names
\* ord(c) of the characters that occur in the labels and attribute names below
ord(c) == CASE c = "_" -> 95 [] c = "a" -> 97 [] c = "b" -> 98 [] c = "c" -> 99

\* s < t for two str: the order list.sort() puts attribute names in
RECURSIVE Less(_, _)
Less(s, t) ==
    IF t = <<>> THEN FALSE
    ELSE IF s = <<>> THEN TRUE
    ELSE IF Head(s) = Head(t) THEN Less(Tail(s), Tail(t))
    ELSE ord(Head(s)) < ord(Head(t))

\* a sorted list with one more element put in its place
RECURSIVE Inserted(_, _)
Inserted(l, a) ==
    IF l = <<>> THEN <<a>>
    ELSE IF Less(a, Head(l)) THEN <<a>> \o l
    ELSE <<Head(l)>> \o Inserted(Tail(l), a)

\* attributes.sort()
RECURSIVE sort(_)
sort(attributes) ==
    IF attributes = <<>> THEN <<>>
    ELSE Inserted(sort(Tail(attributes)), Head(attributes))

\* the attributes argument of create_node_index / create_rel_index: a str, or a
\* list of str
Str(name) == [isStr |-> TRUE, items |-> <<name>>]
List(names) == [isStr |-> FALSE, items |-> names]

\* the name create_node_index / create_rel_index computes, prefix being
\* "node_index" or "rel_index"; an empty attribute list fails the assert
index_name(prefix, label, attributes) ==
    IF attributes.items = <<>> THEN Raises("AssertionError")
    ELSE LET sorted == sort(attributes.items)
         IN  Returns(prefix \o Chars("_") \o replace(label, "_", Chars("__"))
                     \o Chars("_")
                     \o join(Chars("_"), [i \in 1..Len(sorted) |->
                                             replace(sorted[i], "_", Chars("__"))]))

\* the labels and attribute names the indexes are created for
MaxIndexAttrs == 2
IndexLabels == {Chars("a"), Chars("a_")}
IndexAttrNames == {Chars("b"), Chars("_b"), Chars("c")}
IndexAttrLists ==
    UNION {{l \in [1..n -> IndexAttrNames] : \A i, j \in 1..n : i # j => l[i] # l[j]}
              : n \in 0..MaxIndexAttrs}
IndexAttrArgs == {Str(a) : a \in IndexAttrNames} \cup {List(l) : l \in IndexAttrLists}

NoIndexCall == [prefix |-> <<>>, label |-> <<>>, attributes |-> List(<<>>),
                error |-> "none", index_name |-> <<>>]

\* create_node_index / create_rel_index(label, attributes): the name is
\* computed, the index created by one write_query on the default database, and
\* the name returned; the call before it is remembered beside it (a run makes
\* two calls, which is what comparing two names takes)
create_index(prefix, label, attributes, ok) ==
    /\ pc = "idle"
    /\ IF text.op = "create_index" THEN text.prev = NoIndexCall ELSE text.op = "none"
    /\ LET r == index_name(prefix, label, attributes)
           error == IF r.error # "none" THEN r.error
                    ELSE IF SequentialOutcome(ok) # "ok" THEN SequentialOutcome(ok)
                    ELSE "none"
       IN  /\ IF r.error = "none"
              THEN SequentialQuery("neo4j", ok, MaxSessions)
              ELSE UNCHANGED <<bmVars, sessVars>>
           /\ text' = [op |-> "create_index",
                       prev |-> IF text.op = "none" THEN NoIndexCall ELSE text.cur,
                       cur |-> [prefix |-> prefix, label |-> label,
                                attributes |-> attributes, error |-> error,
                                index_name |-> IF error = "none" THEN r.out ELSE <<>>]]
    /\ UNCHANGED <<lock, futures, jobs, pc, awaitIdx, scopeVars, last, saveVars, result>>

create_node_index ==
    \E label \in IndexLabels, attributes \in IndexAttrArgs, ok \in BOOLEAN :
        create_index(Chars("node_index"), label, attributes, ok)

create_rel_index ==
    \E label \in IndexLabels, attributes \in IndexAttrArgs, ok \in BOOLEAN :
        create_index(Chars("rel_index"), label, attributes, ok)

NextIndex ==
    \/ create_node_index
    \/ create_rel_index

SpecIndex == Init /\ [][NextIndex]_vars

\* two calls of the same function have returned, one after the other
TwoIndexesNamed ==
    /\ text.op = "create_index"
    /\ text.prev.prefix = text.cur.prefix
    /\ text.prev.error = "none" /\ text.cur.error = "none"

\* C38: the index name computed by create_node_index / create_rel_index is
\* injective in (label, set of attributes): two calls give the same name exactly
\* when they have the same label and the same set of attributes, in whatever
\* order the attributes are passed.
C38_IndexNameInjective ==
    TwoIndexesNamed =>
        (text.prev.index_name = text.cur.index_name
            <=> /\ text.prev.label = text.cur.label
                /\ Range(text.prev.attributes.items) = Range(text.cur.attributes.items))
====
